---- MODULE Spec2Model ----
(***************************************************************************)
(* Model of fast-api-mcp-todo/main.py: a FastAPI todo service over one     *)
(* SQLite table, todos(id INTEGER PRIMARY KEY AUTOINCREMENT, content TEXT  *)
(* NOT NULL, completed BOOLEAN NOT NULL DEFAULT 0).                        *)
(*                                                                         *)
(* Spec      runs the requests one after another: one action per handler,  *)
(*           the whole handler in one step.                                *)
(* SpecConc  runs the handlers of two worker threads statement by          *)
(*           statement (FastAPI runs "def" handlers in a thread pool),     *)
(*           each on its own connection.                                   *)
(*                                                                         *)
(* An Optional[T] value is a sequence of length at most one: <<>> is       *)
(* Python's None, <<v>> is the value v.                                    *)
(***************************************************************************)
EXTENDS Integers, Sequences, FiniteSets, TLC

\* Largest rowid the model lets AUTOINCREMENT hand out.
MaxId == 2

\* Worker threads of SpecConc.
Procs == {1, 2}

\* Request inputs.
Ids == 1..MaxId
Contents == {"", "A", "B"}
OptContents == {<<>>} \cup {<<c>> : c \in Contents}
OptBools == {<<>>, <<TRUE>>, <<FALSE>>}

VARIABLES
    phase,    \* "import" while the module body runs, then "serving"
    initConn, \* init_db's connection: "unopened", "open", "finalized"
    todos,    \* committed rows of the table todos
    seq,      \* sqlite_sequence: the largest rowid AUTOINCREMENT has assigned
    conns,    \* number of open sqlite3 connections
    txn,      \* the open write transaction: <<>> or <<[owner, rows, seq]>>
    reqs,     \* SpecConc: each worker thread's request, position and locals
    last,     \* Spec: the last request, its response and the table before it
    issued,   \* history: every id a create has been given
    gone,     \* history: every id whose DELETE answered 204
    fresh     \* history: the records returned by creates and not yet the
              \*          target of a successful update or delete

vars == <<phase, initConn, todos, seq, conns, txn, reqs, last, issued, gone, fresh>>

----------------------------------------------------------------------------
\* SQLite and sqlite3 (the statements the handlers execute)

\* sqlite3's adapter stores a Python bool as the integer 0 or 1.
AdaptBool(b) == IF b THEN 1 ELSE 0

\* response_model=TodoOut: the row's integer "completed" is validated to bool.
TodoOut(row) ==
    [id |-> row.id, content |-> row.content, completed |-> (row.completed # 0)]

Connect(c) == c + 1

Close(c) == c - 1

\* with get_db() as conn: the connection is closed in "finally", whether the
\* body returned or raised.
get_db(c) == Close(Connect(c))

MaxOf(S) == IF S = {} THEN 0 ELSE CHOOSE m \in S : \A x \in S : x <= m

RowIds(rows) == {r.id : r \in rows}

\* Mutant: the column declared without AUTOINCREMENT, which takes one more
\* than the largest rowid now in the table.
NextRowidNoAutoincrement(rows, sq) == MaxOf(RowIds(rows)) + 1

\* INTEGER PRIMARY KEY AUTOINCREMENT: one more than the largest rowid that
\* has ever been in the table.
NextRowid(rows, sq) == MaxOf(RowIds(rows) \cup {sq}) + 1

\* Mutant: the INSERT binds True for completed.
InsertRowCompleted(rows, sq, content, completed) ==
    rows \cup {[id |-> NextRowid(rows, sq), content |-> content,
                completed |-> AdaptBool(TRUE)]}

\* INSERT INTO todos (content, completed) VALUES (?, ?)
InsertRow(rows, sq, content, completed) ==
    rows \cup {[id |-> NextRowid(rows, sq), content |-> content,
                completed |-> AdaptBool(completed)]}

\* SELECT ... FROM todos WHERE id = ?  followed by fetchone()
SelectById(rows, id) ==
    IF \E r \in rows : r.id = id
    THEN <<CHOOSE r \in rows : r.id = id>>
    ELSE <<>>

RECURSIVE OrderByIdDesc(_)
\* Mutant: ORDER BY id DESC.
OrderByIdDesc(rows) ==
    IF rows = {} THEN <<>>
    ELSE LET m == CHOOSE r \in rows : \A s \in rows : r.id >= s.id
         IN  <<m>> \o OrderByIdDesc(rows \ {m})

RECURSIVE OrderById(_)
\* SELECT id, content, completed FROM todos ORDER BY id  followed by fetchall()
OrderById(rows) ==
    IF rows = {} THEN <<>>
    ELSE LET m == CHOOSE r \in rows : \A s \in rows : r.id <= s.id
         IN  <<m>> \o OrderById(rows \ {m})

\* Mutant: the supplied columns chosen by truthiness ("if todo_update.x:")
\* instead of "is not None".
UpdateRowsTruthy(rows, id, content, completed) ==
    {IF r.id = id
     THEN [r EXCEPT !.content = IF content # <<>> /\ content[1] # ""
                                THEN content[1] ELSE @,
                    !.completed = IF completed # <<>> /\ completed[1]
                                  THEN AdaptBool(completed[1]) ELSE @]
     ELSE r : r \in rows}

\* UPDATE todos SET <the supplied columns> WHERE id = ?
UpdateRows(rows, id, content, completed) ==
    {IF r.id = id
     THEN [r EXCEPT !.content = IF content # <<>> THEN content[1] ELSE @,
                    !.completed = IF completed # <<>>
                                  THEN AdaptBool(completed[1]) ELSE @]
     ELSE r : r \in rows}

\* Mutant: the DELETE is never committed, so the close rolls it back.
DeleteRowsRolledBack(rows, id) == rows

\* DELETE FROM todos WHERE id = ?
DeleteRows(rows, id) == {r \in rows : r.id # id}

\* cursor.rowcount after the DELETE
RowCount(rows, id) == Cardinality({r \in rows : r.id = id})

----------------------------------------------------------------------------
\* The handlers, each as the function from the table to its response and the
\* table it leaves.  opens and stmts count the connections the request
\* opened and the statements it executed.

Response(status, detail, out, rows, sq, opens, stmts) ==
    [status |-> status, detail |-> detail, out |-> out, rows |-> rows,
     seq |-> sq, opens |-> opens, stmts |-> stmts]

NotFound(rows, sq, stmts) ==
    Response(404, "Todo not found", <<>>, rows, sq, 1, stmts)

\* dict(row) with row = None raises TypeError: an unhandled exception, which
\* the framework answers with 500.
DictRow(row, okStatus, rows, sq, stmts) ==
    IF row = <<>>
    THEN Response(500, "Internal Server Error", <<>>, rows, sq, 1, stmts)
    ELSE Response(okStatus, "", <<TodoOut(row[1])>>, rows, sq, 1, stmts)

get_all_todos(rows, sq) ==
    LET fetched == OrderById(rows)
    IN  Response(200, "", [i \in 1..Len(fetched) |-> TodoOut(fetched[i])],
                 rows, sq, 1, 1)

get_todo(rows, sq, todo_id) ==
    LET row == SelectById(rows, todo_id)
    IN  IF row = <<>> THEN NotFound(rows, sq, 1)
        ELSE DictRow(row, 200, rows, sq, 1)

\* TodoCreate: content is a required str; any str, the empty one too, passes.
TodoCreateValid(content) == content # <<>>

create_todo(rows, sq, content) ==
    IF ~TodoCreateValid(content)
    THEN Response(422, "Field required", <<>>, rows, sq, 0, 0)
    ELSE LET new_id   == NextRowid(rows, sq)
             inserted == InsertRow(rows, sq, content[1], FALSE)
         IN  DictRow(SelectById(inserted, new_id), 201, inserted, new_id, 2)

\* Mutant: the existence probe runs before the body is validated.
update_todo_probe_first(rows, sq, todo_id, content, completed) ==
    IF SelectById(rows, todo_id) = <<>>
    THEN NotFound(rows, sq, 1)
    ELSE IF content = <<>> /\ completed = <<>>
    THEN Response(400, "At least one field must be provided", <<>>,
                  rows, sq, 1, 1)
    ELSE LET updated == UpdateRows(rows, todo_id, content, completed)
         IN  DictRow(SelectById(updated, todo_id), 200, updated, sq, 3)

update_todo(rows, sq, todo_id, content, completed) ==
    IF content = <<>> /\ completed = <<>>
    THEN Response(400, "At least one field must be provided", <<>>,
                  rows, sq, 0, 0)
    ELSE IF SelectById(rows, todo_id) = <<>>
    THEN NotFound(rows, sq, 1)
    ELSE LET updated == UpdateRows(rows, todo_id, content, completed)
         IN  DictRow(SelectById(updated, todo_id), 200, updated, sq, 3)

\* Mutant: cursor.rowcount is not looked at.
delete_todo_unchecked(rows, sq, todo_id) ==
    Response(204, "", <<>>, DeleteRows(rows, todo_id), sq, 1, 1)

delete_todo(rows, sq, todo_id) ==
    IF RowCount(rows, todo_id) = 0
    THEN NotFound(rows, sq, 1)
    ELSE Response(204, "", <<>>, DeleteRows(rows, todo_id), sq, 1, 1)

----------------------------------------------------------------------------
\* State

IdleReq ==
    [pc |-> "idle", op |-> "none", id |-> 0, content |-> <<>>,
     completed |-> <<>>, status |-> 0, readBack |-> FALSE, found |-> FALSE]

NoRequest ==
    [op |-> "none", id |-> 0, content |-> <<>>, completed |-> <<>>,
     status |-> 0, detail |-> "", out |-> <<>>, pre |-> {},
     opens |-> 0, stmts |-> 0, goneBefore |-> FALSE]

Init ==
    /\ phase = "import"
    /\ initConn = "unopened"
    /\ todos = {}
    /\ seq = 0
    /\ conns = 0
    /\ txn = <<>>
    /\ reqs = [p \in Procs |-> IdleReq]
    /\ last = NoRequest
    /\ issued = {}
    /\ gone = {}
    /\ fresh = {}

\* init_db(), run when the module is imported.  "with sqlite3.connect(...)"
\* commits on exit and does not close: the connection stays open until the
\* runtime finalizes the unreferenced object.
init_db ==
    /\ phase = "import"
    /\ phase' = "serving"
    /\ initConn' = "open"
    /\ conns' = Connect(conns)
    /\ UNCHANGED <<todos, seq, txn, reqs, last, issued, gone, fresh>>

\* The runtime finalizes init_db's connection object (at once under
\* reference counting, at some later collection otherwise).
Finalize ==
    /\ initConn = "open"
    /\ initConn' = "finalized"
    /\ conns' = Close(conns)
    /\ UNCHANGED <<phase, todos, seq, txn, reqs, last, issued, gone, fresh>>

----------------------------------------------------------------------------
\* Spec: one request at a time

\* The history a response leaves behind.
Record(op, id, content, completed, r) ==
    /\ last' = [op |-> op, id |-> id, content |-> content,
                completed |-> completed, status |-> r.status,
                detail |-> r.detail, out |-> r.out, pre |-> todos,
                opens |-> r.opens, stmts |-> r.stmts,
                goneBefore |-> (id \in gone)]
    /\ todos' = r.rows
    /\ seq' = r.seq
    /\ conns' = IF r.opens = 0 THEN conns ELSE get_db(conns)
    /\ issued' = IF op = "create" /\ r.status = 201
                 THEN issued \cup {r.out[1].id} ELSE issued
    /\ gone' = IF op = "delete" /\ r.status = 204
               THEN gone \cup {id} ELSE gone
    /\ fresh' = IF op = "create" /\ r.status = 201
                THEN fresh \cup {r.out[1]}
                ELSE IF op \in {"update", "delete"} /\ r.status \in {200, 204}
                THEN {f \in fresh : f.id # id}
                ELSE fresh
    /\ UNCHANGED <<phase, initConn, txn, reqs>>

ListTodos ==
    /\ phase = "serving"
    /\ Record("list", 0, <<>>, <<>>, get_all_todos(todos, seq))

GetTodo ==
    /\ phase = "serving"
    /\ \E id \in Ids : Record("get", id, <<>>, <<>>, get_todo(todos, seq, id))

CreateTodo ==
    /\ phase = "serving"
    /\ \E c \in OptContents :
          /\ c # <<>> => NextRowid(todos, seq) <= MaxId
          /\ Record("create", 0, c, <<>>, create_todo(todos, seq, c))

UpdateTodo ==
    /\ phase = "serving"
    /\ \E id \in Ids, c \in OptContents, d \in OptBools :
          Record("update", id, c, d, update_todo(todos, seq, id, c, d))

DeleteTodo ==
    /\ phase = "serving"
    /\ \E id \in Ids :
          Record("delete", id, <<>>, <<>>, delete_todo(todos, seq, id))

Next ==
    \/ init_db
    \/ Finalize
    \/ ListTodos
    \/ GetTodo
    \/ CreateTodo
    \/ UpdateTodo
    \/ DeleteTodo

Spec == Init /\ [][Next]_vars

----------------------------------------------------------------------------
\* SpecConc: two worker threads, one statement per step.  A write statement
\* begins a transaction that holds the database's write lock until commit or
\* close; the other connections read the committed rows meanwhile.

Req(p) == reqs[p]

Idle(p) == phase = "serving" /\ Req(p).pc = "idle"

At(p, pc) == Req(p).pc = pc

Goto(p, pc) == reqs' = [reqs EXCEPT ![p].pc = pc]

Started(p, op, id, content, completed, pc) ==
    reqs' = [reqs EXCEPT ![p] = [IdleReq EXCEPT !.pc = pc, !.op = op,
                 !.id = id, !.content = content, !.completed = completed]]

\* The response leaves the handler: the thread keeps the operation and the
\* status for the record and is free for the next request.
Finished(p, status) ==
    reqs' = [reqs EXCEPT ![p] = [IdleReq EXCEPT !.op = Req(p).op,
                                                !.status = status]]

ConcFrame == UNCHANGED <<phase, initConn, last, issued, gone, fresh>>

StartList(p) ==
    /\ Idle(p)
    /\ Started(p, "list", 0, <<>>, <<>>, "select_all")
    /\ conns' = Connect(conns)
    /\ UNCHANGED <<todos, seq, txn>> /\ ConcFrame

SelectAll(p) ==
    /\ At(p, "select_all")
    /\ Finished(p, get_all_todos(todos, seq).status)
    /\ conns' = Close(conns)
    /\ UNCHANGED <<todos, seq, txn>> /\ ConcFrame

StartGet(p) ==
    /\ Idle(p)
    /\ \E id \in Ids : Started(p, "get", id, <<>>, <<>>, "select")
    /\ conns' = Connect(conns)
    /\ UNCHANGED <<todos, seq, txn>> /\ ConcFrame

Select(p) ==
    /\ At(p, "select")
    /\ LET r == get_todo(todos, seq, Req(p).id)
       IN  Finished(p, r.status)
    /\ conns' = Close(conns)
    /\ UNCHANGED <<todos, seq, txn>> /\ ConcFrame

StartCreate(p) ==
    /\ Idle(p)
    /\ \E c \in OptContents :
          IF TodoCreateValid(c)
          THEN /\ Started(p, "create", 0, c, <<>>, "insert")
               /\ conns' = Connect(conns)
          ELSE /\ reqs' = [reqs EXCEPT ![p] =
                              [IdleReq EXCEPT !.op = "create", !.status = 422]]
               /\ conns' = conns
    /\ UNCHANGED <<todos, seq, txn>> /\ ConcFrame

\* cursor.execute(INSERT ...): new_id = cursor.lastrowid
Insert(p) ==
    /\ At(p, "insert")
    /\ txn = <<>>
    /\ NextRowid(todos, seq) <= MaxId
    /\ txn' = <<[owner |-> p,
                 rows |-> InsertRow(todos, seq, Req(p).content[1], FALSE),
                 seq |-> NextRowid(todos, seq)]>>
    /\ reqs' = [reqs EXCEPT ![p].pc = "commit",
                            ![p].id = NextRowid(todos, seq)]
    /\ UNCHANGED <<todos, seq, conns>> /\ ConcFrame

StartUpdate(p) ==
    /\ Idle(p)
    /\ \E id \in Ids, c \in OptContents, d \in OptBools :
          IF c = <<>> /\ d = <<>>
          THEN /\ reqs' = [reqs EXCEPT ![p] =
                              [IdleReq EXCEPT !.op = "update", !.status = 400]]
               /\ conns' = conns
          ELSE /\ Started(p, "update", id, c, d, "probe")
               /\ conns' = Connect(conns)
    /\ UNCHANGED <<todos, seq, txn>> /\ ConcFrame

\* SELECT id FROM todos WHERE id = ?
Probe(p) ==
    /\ At(p, "probe")
    /\ IF SelectById(todos, Req(p).id) = <<>>
       THEN /\ Finished(p, 404)
            /\ conns' = Close(conns)
       ELSE /\ Goto(p, "update")
            /\ conns' = conns
    /\ UNCHANGED <<todos, seq, txn>> /\ ConcFrame

\* cursor.execute(UPDATE ...)
Update(p) ==
    /\ At(p, "update")
    /\ txn = <<>>
    /\ txn' = <<[owner |-> p,
                 rows |-> UpdateRows(todos, Req(p).id, Req(p).content,
                                     Req(p).completed),
                 seq |-> seq]>>
    /\ Goto(p, "commit")
    /\ UNCHANGED <<todos, seq, conns>> /\ ConcFrame

StartDelete(p) ==
    /\ Idle(p)
    /\ \E id \in Ids : Started(p, "delete", id, <<>>, <<>>, "delete")
    /\ conns' = Connect(conns)
    /\ UNCHANGED <<todos, seq, txn>> /\ ConcFrame

\* cursor.execute(DELETE ...); with rowcount 0 the handler raises 404 and the
\* close rolls the empty transaction back.
Delete(p) ==
    /\ At(p, "delete")
    /\ txn = <<>>
    /\ IF RowCount(todos, Req(p).id) = 0
       THEN /\ Finished(p, delete_todo(todos, seq, Req(p).id).status)
            /\ conns' = Close(conns)
            /\ txn' = txn
       ELSE /\ txn' = <<[owner |-> p, rows |-> DeleteRows(todos, Req(p).id),
                         seq |-> seq]>>
            /\ Goto(p, "commit")
            /\ conns' = conns
    /\ UNCHANGED <<todos, seq>> /\ ConcFrame

\* conn.commit(); delete_todo returns after it, the others read back.
Commit(p) ==
    /\ At(p, "commit")
    /\ txn # <<>> /\ txn[1].owner = p
    /\ todos' = txn[1].rows
    /\ seq' = txn[1].seq
    /\ txn' = <<>>
    /\ IF Req(p).op = "delete"
       THEN /\ Finished(p, 204)
            /\ conns' = Close(conns)
       ELSE /\ Goto(p, "readback")
            /\ conns' = conns
    /\ ConcFrame

\* SELECT ... WHERE id = ?; row = cursor.fetchone(); return dict(row)
ReadBack(p) ==
    /\ At(p, "readback")
    /\ LET row == SelectById(todos, Req(p).id)
           ok  == IF Req(p).op = "create" THEN 201 ELSE 200
       IN  reqs' = [reqs EXCEPT ![p] = [IdleReq EXCEPT !.op = Req(p).op,
                        !.status = DictRow(row, ok, todos, seq, 1).status,
                        !.readBack = TRUE, !.found = (row # <<>>)]]
    /\ conns' = Close(conns)
    /\ UNCHANGED <<todos, seq, txn>> /\ ConcFrame

\* The write lock stayed with the other connection past sqlite3's busy
\* timeout: OperationalError("database is locked"), an unhandled exception.
Busy(p) ==
    /\ Req(p).pc \in {"insert", "update", "delete"}
    /\ txn # <<>>
    /\ Finished(p, 500)
    /\ conns' = Close(conns)
    /\ UNCHANGED <<todos, seq, txn>> /\ ConcFrame

NextConc ==
    \/ init_db
    \/ Finalize
    \/ \E p \in Procs : StartList(p)
    \/ \E p \in Procs : SelectAll(p)
    \/ \E p \in Procs : StartGet(p)
    \/ \E p \in Procs : Select(p)
    \/ \E p \in Procs : StartCreate(p)
    \/ \E p \in Procs : Insert(p)
    \/ \E p \in Procs : StartUpdate(p)
    \/ \E p \in Procs : Probe(p)
    \/ \E p \in Procs : Update(p)
    \/ \E p \in Procs : StartDelete(p)
    \/ \E p \in Procs : Delete(p)
    \/ \E p \in Procs : Commit(p)
    \/ \E p \in Procs : ReadBack(p)
    \/ \E p \in Procs : Busy(p)

SpecConc == Init /\ [][NextConc]_vars

----------------------------------------------------------------------------
\* Properties.  The ones about a single request read it from "last": the
\* request, its response, and the table as it was before (last.pre).

Supplied(req) == req.content # <<>> \/ req.completed # <<>>

Existed(req) == \E r \in req.pre : r.id = req.id

OldRow(req) == CHOOSE r \in req.pre : r.id = req.id

\* C1: a PATCH of an existing todo that supplies at least one field answers
\* 200, and the stored and the returned record have the supplied fields
\* replaced by the supplied values (completed = false included) and the
\* others as before; no other row changes.
C1_SparseUpdate ==
    (last.op = "update" /\ Supplied(last) /\ Existed(last)) =>
        LET old  == TodoOut(OldRow(last))
            want == [id |-> old.id,
                     content |-> IF last.content # <<>>
                                 THEN last.content[1] ELSE old.content,
                     completed |-> IF last.completed # <<>>
                                   THEN last.completed[1] ELSE old.completed]
        IN  /\ last.status = 200
            /\ last.out = <<want>>
            /\ {TodoOut(r) : r \in {x \in todos : x.id = last.id}} = {want}
            /\ {r \in todos : r.id # last.id}
                  = {r \in last.pre : r.id # last.id}
            /\ Cardinality(todos) = Cardinality(last.pre)

\* An explicit completed = false, alone in the body, turned a completed todo
\* back to not completed.
C1_Witness ==
    /\ last.op = "update" /\ last.status = 200
    /\ last.content = <<>> /\ last.completed = <<FALSE>>
    /\ Existed(last) /\ OldRow(last).completed = 1
    /\ OldRow(last).content = "A"

\* C2: the persisted todos have pairwise distinct ids, an update changes no
\* id, and a create never hands out an id an earlier create handed out, even
\* after the todo that held it was deleted.
C2_IdsUniqueNeverReused ==
    /\ [](\A r, s \in todos : r.id = s.id => r = s)
    /\ [][/\ (last' # last /\ last'.op = "update")
                => RowIds(todos') = RowIds(todos)
          /\ (last' # last /\ last'.op = "create" /\ last'.status = 201)
                => /\ last'.out[1].id \notin issued
                   /\ last'.out[1].id \notin RowIds(todos)
                   /\ RowIds(todos') = RowIds(todos) \cup {last'.out[1].id}
          /\ \A i \in RowIds(todos') \ RowIds(todos) : i \notin issued
         ]_vars

\* A create after the only todo was deleted.
C2_Witness ==
    /\ last.op = "create" /\ last.status = 201
    /\ last.pre = {} /\ gone # {}

\* C3: a POST with content c answers 201 with a new id, content c and
\* completed false; a GET of a created record that no update or delete has
\* touched since returns that record, any number of times; a GET returns the
\* stored record and changes nothing.
C3_CreateGetRoundTrip ==
    /\ (last.op = "create" /\ last.content # <<>>) =>
          /\ last.status = 201
          /\ Len(last.out) = 1
          /\ last.out[1].content = last.content[1]
          /\ last.out[1].completed = FALSE
          /\ last.out[1].id \notin RowIds(last.pre)
          /\ todos = last.pre \cup {r \in todos : r.id = last.out[1].id}
    /\ last.op = "get" =>
          /\ todos = last.pre
          /\ \A f \in fresh : f.id = last.id =>
                last.status = 200 /\ last.out = <<f>>
          /\ last.status = 200 =>
                {TodoOut(r) : r \in {x \in todos : x.id = last.id}}
                   = {last.out[1]}

\* A GET of a record some create returned, untouched since.
C3_Witness ==
    /\ last.op = "get" /\ last.status = 200
    /\ \E f \in fresh : f.id = last.id /\ f.content = "B"
    /\ Cardinality(todos) = 2

\* C4: a PATCH that supplies neither field answers 400 for every id, opens
\* no connection, executes no statement and leaves the table as it was.
C4_EmptyPatchRejectedFirst ==
    (last.op = "update" /\ ~Supplied(last)) =>
        /\ last.status = 400
        /\ last.opens = 0
        /\ last.stmts = 0
        /\ todos = last.pre

\* An empty PATCH of an id that has no row, with other rows in the table.
C4_Witness ==
    /\ last.op = "update" /\ ~Supplied(last) /\ last.status = 400
    /\ ~Existed(last) /\ last.pre # {}

\* C5: GET, PATCH with a field supplied, and DELETE of an id that has no row
\* answer 404 with a detail message and leave the table as it was.
C5_NotFoundConsistency ==
    (/\ last.op \in {"get", "update", "delete"}
     /\ last.op = "update" => Supplied(last)
     /\ ~Existed(last)) =>
        /\ last.status = 404
        /\ last.detail # ""
        /\ todos = last.pre

\* A DELETE of an id that has no row, with other rows in the table.
C5_Witness ==
    /\ last.op = "delete" /\ last.status = 404
    /\ ~Existed(last) /\ last.pre # {}

\* DELETE answers 204 exactly when the row existed, and then removes that
\* row and no other; an id that was deleted has no row ever after.
DeleteByRowCount ==
    /\ last.op = "delete" =>
          /\ last.status = 204 <=> Existed(last)
          /\ last.status = 204 => todos = last.pre \ {OldRow(last)}
          /\ last.status # 204 => todos = last.pre
    /\ \A i \in gone : i \notin RowIds(todos)

\* C6 as claimed: DELETE answers 204 exactly when the row existed and removes
\* that row only, and after a 204 every later GET, PATCH or DELETE of the id
\* answers 404.
C6_AsClaimed ==
    /\ DeleteByRowCount
    /\ (last.op \in {"get", "update", "delete"} /\ last.goneBefore) =>
          last.status = 404

\* C6, amended: DELETE answers 204 exactly when the row existed and removes
\* that row only, and after a 204 every later GET, DELETE, or PATCH that
\* supplies a field answers 404, while a later PATCH that supplies no field
\* answers 400.
C6_DeletionFinality ==
    /\ DeleteByRowCount
    /\ (last.op \in {"get", "update", "delete"} /\ last.goneBefore) =>
          last.status = IF last.op = "update" /\ ~Supplied(last)
                        THEN 400 ELSE 404

\* A PATCH with a field of a deleted id, after a later create.
C6_Witness ==
    /\ last.op = "update" /\ Supplied(last) /\ last.goneBefore
    /\ last.status = 404
    /\ last.pre # {} /\ \A r \in last.pre : r.id > last.id

\* C7: GET /todos answers 200 with every persisted todo exactly once, in
\* strictly ascending id order, with its current content and completed, and
\* with the empty array for the empty table; it changes nothing.
C7_ListAscending ==
    last.op = "list" =>
        /\ last.status = 200
        /\ todos = last.pre
        /\ Len(last.out) = Cardinality(todos)
        /\ \A i, j \in 1..Len(last.out) :
              i < j => last.out[i].id < last.out[j].id
        /\ {last.out[i] : i \in 1..Len(last.out)} = {TodoOut(r) : r \in todos}

\* A listing of two todos, the first of them updated.
C7_Witness ==
    /\ last.op = "list" /\ Len(last.out) = 2
    /\ last.out[1].completed /\ ~last.out[2].completed

\* C8: every persisted todo has non-empty content (a POST with empty content
\* is rejected, and no create or update stores empty content).
C8_ContentNonEmpty ==
    /\ \A r \in todos : r.content # ""
    /\ (last.op = "create" /\ last.content \in {<<>>, <<"">>}) =>
          last.status \in {400, 422} /\ todos = last.pre

\* C9: a create or update whose read-back finds the row gone ends with 404,
\* not with an unhandled failure.
C9_ReadBackGoneIsNotFound ==
    \A p \in Procs :
        (Req(p).readBack /\ ~Req(p).found) => Req(p).status = 404

\* C10: once the operations so far have completed, no connection is open.
C10_NoOpenConnection ==
    (phase = "serving" /\ \A p \in Procs : Req(p).pc = "idle") => conns = 0

====
